---- MODULE Spec2Model ----
(***************************************************************************)
(* Model of depthai_sdk/components/syncing.py: BaseSync (the delivery      *)
(* queue and checkQueue) and NoSync (the per-stream buffers and newMsg).   *)
(*                                                                         *)
(* Each stream name has one producer thread that calls newMsg(name, msg);  *)
(* one consumer thread calls checkQueue.  A message is identified by its   *)
(* stream and its arrival number in that stream.                           *)
(*                                                                         *)
(* Spec, FairSpec: one instance, distinct registered names, newMsg calls   *)
(*   made one at a time.                                                   *)
(* ConcSpec: the same with the producers' newMsg calls interleaved.        *)
(* TwoSpec: two instances (NoSync.msgs is a class attribute).              *)
(* DupSpec: one instance whose list of streams holds a name twice.         *)
(***************************************************************************)
EXTENDS Integers, Sequences, FiniteSets, TLC

\* Bounds of the model.
MaxLen == 2       \* messages each producer sends in the small scenarios
MaxFlood == 32    \* messages the flooding producer sends (more than the queue holds)
MaxConc == 1      \* calls each producer makes in the interleaved model
MaxTwo == 1       \* calls each producer makes on each of two instances

\* Queue(maxsize=30)
QueueMaxSize == 30

Names == {"color", "depth", "nn"}

None == [none |-> TRUE]

VARIABLES
  streams,     \* self.streams: list of registered stream names
  msgs,        \* NoSync.msgs: dict name -> list of messages
  queue,       \* self.queue: contents of the Queue, oldest first
  blockedPut,  \* per producer thread: the bundle its queue.put(ret) is blocked on, or None
  consumer,    \* consumer thread: "idle", or "waiting" inside queue.get(block=True)
  delivered,   \* bundles the callback has been called with, in call order
  raised,      \* exception that escaped checkQueue ("none" when none did)
  budget,      \* environment: messages each producer has still to send
  sent,        \* history: number of newMsg calls made so far, per name
  emitted,     \* history: bundles newMsg has handed to queue.put, in call order
  emittedFull, \* history: bundles whose queue.put found the queue full
  pushed,      \* history: bundles in the order they entered the queue
  lastOp,      \* history: the operation that took the last step
  call,        \* per producer thread: its position inside a newMsg call that
               \* runs interleaved with the other producers' calls
  failure,     \* per producer thread: exception that escaped its newMsg call
  other        \* a second NoSync instance: its streams, queue, blocked puts,
               \* consumer, callback log, and its producers' budgets and calls

vars == <<streams, msgs, queue, blockedPut, consumer, delivered, raised,
          budget, sent, emitted, emittedFull, pushed, lastOp, call, failure, other>>

----------------------------------------------------------------------------
\* Helpers

Range(s) == {s[i] : i \in 1..Len(s)}

Registered == Range(streams)

Buf(m, n) == IF n \in DOMAIN m THEN m[n] ELSE <<>>

Count(x, s) == Cardinality({i \in 1..Len(s) : s[i] = x})

IsPrefix(s, t) == Len(s) <= Len(t) /\ \A i \in 1..Len(s) : s[i] = t[i]

----------------------------------------------------------------------------
\* Scenarios the model starts from: the registered streams and the number of
\* messages each producer will send.

SmallBudget == [n \in Names |-> MaxLen]

FloodBudget ==
  [n \in Names |-> IF n = "color" THEN MaxFlood ELSE IF n = "depth" THEN 1 ELSE 0]

Scenarios ==
  { [streams |-> <<"color", "depth">>, budget |-> SmallBudget],
    [streams |-> <<"color", "depth", "nn">>, budget |-> SmallBudget],
    [streams |-> <<"color", "depth">>, budget |-> FloodBudget] }

\* A producer thread that is not inside newMsg.
Idle == [pc |-> "idle", keys |-> {}, lens |-> <<>>]

\* A second instance after NoSync(callback2, strs), for producers that will
\* make b calls on it.  (No second instance: no streams and no calls.)
Instance(strs, b) ==
  [streams |-> strs, queue |-> <<>>, blockedPut |-> [n \in Names |-> None],
   consumer |-> "idle", delivered |-> <<>>, emitted |-> <<>>,
   budget |-> b, sent |-> [n \in Names |-> 0]]

\* The state after NoSync(callback, sc.streams), for producers that will
\* make sc.budget calls.
Constructed(sc) ==
  /\ streams = sc.streams
  /\ budget = sc.budget
  /\ msgs = <<>>
  /\ queue = <<>>
  /\ blockedPut = [n \in Names |-> None]
  /\ consumer = "idle"
  /\ delivered = <<>>
  /\ raised = "none"
  /\ sent = [n \in Names |-> 0]
  /\ emitted = <<>>
  /\ emittedFull = {}
  /\ pushed = <<>>
  /\ lastOp = "init"
  /\ call = [n \in Names |-> Idle]
  /\ failure = [n \in Names |-> "none"]
  /\ other = Instance(<<>>, [n \in Names |-> 0])

\* BaseSync.__init__ and NoSync.__init__; NoSync.msgs starts as dict().
Init ==
  /\ \E sc \in Scenarios : streams = sc.streams /\ budget = sc.budget
  /\ msgs = <<>>
  /\ queue = <<>>
  /\ blockedPut = [n \in Names |-> None]
  /\ consumer = "idle"
  /\ delivered = <<>>
  /\ raised = "none"
  /\ sent = [n \in Names |-> 0]
  /\ emitted = <<>>
  /\ emittedFull = {}
  /\ pushed = <<>>
  /\ lastOp = "init"
  /\ call = [n \in Names |-> Idle]
  /\ failure = [n \in Names |-> "none"]
  /\ other = Instance(<<>>, [n \in Names |-> 0])

----------------------------------------------------------------------------
\* NoSync.newMsg

\* Mutant: a new name replaces the dict by one that holds its slot only.
ReplacedDict(m, name) == IF name \in DOMAIN m THEN m ELSE (name :> <<>>)

\* Mutant: the slot is reset on every call.
FreshSlot(m, name) == [n \in DOMAIN m \cup {name} |-> IF n = name THEN <<>> ELSE m[n]]

\* if name not in self.msgs: self.msgs[name] = []
WithSlot(m, name) == IF name \in DOMAIN m THEN m ELSE m @@ (name :> <<>>)

\* [0 < len(arr) for _, arr in self.msgs.items()].count(True)
MsgsAvailableCnt(m) == Cardinality({n \in DOMAIN m : 0 < Len(m[n])})

\* Mutant: one non-empty buffer is enough.
ReadyAny(strs, cnt) == cnt >= 1

\* Mutant: the comparison is strict.
ReadyStrict(strs, cnt) == Len(strs) < cnt

\* if len(self.streams) == msgsAvailableCnt
Ready(strs, cnt) == Len(strs) = cnt

\* arr[-1:]
LastSlice(arr) == IF arr = <<>> THEN <<>> ELSE <<arr[Len(arr)]>>

\* Mutant: the oldest message is taken instead of the latest.
Oldest(arr) == arr[1]

\* arr = arr[-1:]; ret[name] = arr[0]
Latest(arr) == LastSlice(arr)[1]

\* Mutant: the loop empties the stored list.
Cleared(arr) == <<>>

\* What self.msgs[name] holds after the loop: `arr = arr[-1:]` rebinds the
\* loop variable only, the list stored in self.msgs is not touched.
Retained(arr) == arr

\* Mutant: newMsg calls self.callback(ret) itself.
DispatchedDirectly(d, ret) == Append(d, ret)

\* What newMsg does to the callback's log: nothing, ret goes to
\* self.queue.put and self.callback is not called in newMsg.
Dispatched(d, ret) == d

\* Mutant: put never waits.
NeverBlocks(q) == FALSE

\* Queue.put(ret) with block=True: waits while the queue holds maxsize items.
PutBlocks(q) == Len(q) >= QueueMaxSize

NewMsg(name) ==
  /\ budget[name] > 0
  /\ blockedPut[name] = None
  /\ LET msg == [stream |-> name, seq |-> sent[name] + 1]
         m1  == WithSlot(msgs, name)
         m2  == [m1 EXCEPT ![name] = Append(@, msg)]
         msgsAvailableCnt == MsgsAvailableCnt(m2)
     IN  /\ budget' = [budget EXCEPT ![name] = @ - 1]
         /\ sent' = [sent EXCEPT ![name] = @ + 1]
         /\ IF Ready(streams, msgsAvailableCnt)
            THEN LET ret == [n \in DOMAIN m2 |-> Latest(m2[n])]
                 IN  /\ msgs' = [n \in DOMAIN m2 |-> Retained(m2[n])]
                     /\ emitted' = Append(emitted, ret)
                     /\ delivered' = Dispatched(delivered, ret)
                     /\ IF PutBlocks(queue)
                        THEN /\ blockedPut' = [blockedPut EXCEPT ![name] = ret]
                             /\ emittedFull' = emittedFull \cup {ret}
                             /\ UNCHANGED <<queue, pushed>>
                        ELSE /\ queue' = Append(queue, ret)
                             /\ pushed' = Append(pushed, ret)
                             /\ UNCHANGED <<blockedPut, emittedFull>>
            ELSE /\ msgs' = m2
                 /\ UNCHANGED <<queue, pushed, blockedPut, emitted, emittedFull, delivered>>
  /\ lastOp' = "newMsg"
  /\ UNCHANGED <<streams, consumer, raised, call, failure, other>>

\* A producer blocked in queue.put(ret) proceeds once the queue has room.
PutResume(name) ==
  /\ blockedPut[name] # None
  /\ ~PutBlocks(queue)
  /\ queue' = Append(queue, blockedPut[name])
  /\ pushed' = Append(pushed, blockedPut[name])
  /\ blockedPut' = [blockedPut EXCEPT ![name] = None]
  /\ lastOp' = "put"
  /\ UNCHANGED <<streams, msgs, consumer, delivered, raised, budget, sent,
                 emitted, emittedFull, call, failure, other>>

----------------------------------------------------------------------------
\* BaseSync.checkQueue

\* Mutant: the newest item is returned.
QueueBack(q) == q[Len(q)]

\* Mutant: the returned item stays in the queue.
QueueKept(q) == q

\* Queue.get(block): the oldest item, or the Empty exception when there is
\* none and block is False, or a wait when there is none and block is True.
QueueFront(q) == q[1]

QueueRest(q) == Tail(q)

QueueGet(q, block) ==
  IF q # <<>> THEN [status |-> "item", item |-> QueueFront(q), rest |-> QueueRest(q)]
  ELSE IF block THEN [status |-> "wait", item |-> None, rest |-> q]
  ELSE [status |-> "Empty", item |-> None, rest |-> q]

\* Mutant: the except clause is missing.
CaughtNothing == {}

\* except Empty: pass
Caught == {"Empty"}

\* if msgs is not None: self.callback(msgs)
Callback(d, item) == IF item # None THEN Append(d, item) ELSE d

CheckQueue(block) ==
  /\ consumer = "idle"
  /\ LET got == QueueGet(queue, block)
     IN  /\ queue' = got.rest
         /\ CASE got.status = "item" ->
                   /\ delivered' = Callback(delivered, got.item)
                   /\ UNCHANGED <<consumer, raised>>
              [] got.status = "wait" ->
                   /\ consumer' = "waiting"
                   /\ UNCHANGED <<delivered, raised>>
              [] OTHER ->
                   /\ raised' = IF got.status \in Caught THEN raised ELSE got.status
                   /\ UNCHANGED <<consumer, delivered>>
  /\ lastOp' = IF block THEN "checkQueueBlock" ELSE "checkQueue"
  /\ UNCHANGED <<streams, msgs, blockedPut, budget, sent, emitted, emittedFull, pushed,
                 call, failure, other>>

\* The consumer waiting in queue.get(block=True) is woken by a put.
GetResume ==
  /\ consumer = "waiting"
  /\ queue # <<>>
  /\ LET got == QueueGet(queue, TRUE)
     IN  /\ queue' = got.rest
         /\ delivered' = Callback(delivered, got.item)
  /\ consumer' = "idle"
  /\ lastOp' = "get"
  /\ UNCHANGED <<streams, msgs, blockedPut, raised, budget, sent, emitted,
                 emittedFull, pushed, call, failure, other>>

----------------------------------------------------------------------------
Next ==
  \/ \E name \in Names : NewMsg(name)
  \/ \E name \in Names : PutResume(name)
  \/ \E block \in BOOLEAN : CheckQueue(block)
  \/ GetResume

Spec == Init /\ [][Next]_vars

\* Scheduling: every registered producer thread that has a message to send
\* gets to call newMsg, a blocked put proceeds when the queue has room, the
\* consumer keeps polling, and a waiting get proceeds when an item is there.
Fairness ==
  /\ \A n \in Names : WF_vars(n \in Registered /\ NewMsg(n))
  /\ \A n \in Names : WF_vars(PutResume(n))
  /\ WF_vars(CheckQueue(FALSE))
  /\ WF_vars(GetResume)

FairSpec == Spec /\ Fairness

----------------------------------------------------------------------------
\* NoSync.newMsg called by several producer threads at once.  The method
\* takes no lock, so a thread can be preempted between any two accesses to
\* self.msgs: after creating the slot, after the append, and while one of
\* its two loops over self.msgs.items() is running.

Snapshot(m) == [pc |-> "", keys |-> DOMAIN m, lens |-> [k \in DOMAIN m |-> Len(m[k])]]

At(a, b) == [a EXCEPT !.pc = b]

\* A dict iterator raises RuntimeError when a key was added to the dict
\* since the loop started.
SizeChanged(c, m) == DOMAIN m # c.keys

\* The lengths a loop that started at snapshot c can have found the lists
\* of m at: for each list, a length it had between then and now.
Growth(c, m) == {Len(m[k]) - c.lens[k] : k \in c.keys}

SeenLengths(c, m) ==
  { [k \in c.keys |-> c.lens[k] + d[k]] :
      d \in { g \in [c.keys -> 0..(CHOOSE x \in Growth(c, m) : \A y \in Growth(c, m) : y <= x)] :
                \A k \in c.keys : c.lens[k] + g[k] <= Len(m[k]) } }

ConcFrame == UNCHANGED <<streams, queue, blockedPut, consumer, delivered, raised,
                         budget, emitted, emittedFull, pushed, other>>

\* if name not in self.msgs: self.msgs[name] = []
ConcSlot(name) ==
  /\ call[name].pc = "idle"
  /\ budget[name] > 0
  /\ blockedPut[name] = None
  /\ msgs' = WithSlot(msgs, name)
  /\ sent' = [sent EXCEPT ![name] = @ + 1]
  /\ budget' = [budget EXCEPT ![name] = @ - 1]
  /\ call' = [call EXCEPT ![name] = At(Idle, "append")]
  /\ lastOp' = "newMsg"
  /\ UNCHANGED <<streams, queue, blockedPut, consumer, delivered, raised,
                 emitted, emittedFull, pushed, failure, other>>

\* self.msgs[name].append(msg)
ConcAppend(name) ==
  /\ call[name].pc = "append"
  /\ msgs' = [msgs EXCEPT ![name] = Append(@, [stream |-> name, seq |-> sent[name]])]
  /\ call' = [call EXCEPT ![name] = At(Idle, "count")]
  /\ lastOp' = "newMsg"
  /\ ConcFrame
  /\ UNCHANGED <<sent, failure>>

\* The loop of line 60 starts.
ConcCountBegin(name) ==
  /\ call[name].pc = "count"
  /\ call' = [call EXCEPT ![name] = At(Snapshot(msgs), "counting")]
  /\ lastOp' = "newMsg"
  /\ ConcFrame
  /\ UNCHANGED <<msgs, sent, failure>>

\* The loop of line 60 ends: each list was looked at at some moment since
\* the loop started, so the count lies between the number of non-empty
\* lists then and now.  Then `if len(self.streams) == msgsAvailableCnt`.
ConcCountEnd(name) ==
  /\ call[name].pc = "counting"
  /\ IF SizeChanged(call[name], msgs)
     THEN /\ failure' = [failure EXCEPT ![name] = "RuntimeError"]
          /\ call' = [call EXCEPT ![name] = Idle]
     ELSE /\ \E cnt \in Cardinality({k \in call[name].keys : 0 < call[name].lens[k]})
                        .. MsgsAvailableCnt(msgs) :
               call' = [call EXCEPT ![name] =
                          IF Ready(streams, cnt) THEN At(Idle, "build") ELSE Idle]
          /\ UNCHANGED failure
  /\ lastOp' = "newMsg"
  /\ ConcFrame
  /\ UNCHANGED <<msgs, sent>>

\* The loop of line 65 starts.
ConcBuildBegin(name) ==
  /\ call[name].pc = "build"
  /\ call' = [call EXCEPT ![name] = At(Snapshot(msgs), "building")]
  /\ lastOp' = "newMsg"
  /\ ConcFrame
  /\ UNCHANGED <<msgs, sent, failure>>

\* The loop of line 65 ends, then self.queue.put(ret).  Each list was read
\* at some moment since the loop started: seen[k] is its length then, and
\* arr[0] raises IndexError when it was still empty.
ConcBuildEnd(name) ==
  /\ call[name].pc = "building"
  /\ call' = [call EXCEPT ![name] = Idle]
  /\ IF SizeChanged(call[name], msgs)
     THEN /\ failure' = [failure EXCEPT ![name] = "RuntimeError"]
          /\ UNCHANGED <<msgs, queue, blockedPut, emitted, emittedFull, pushed>>
     ELSE \E seen \in SeenLengths(call[name], msgs) :
            /\ TRUE
            /\ IF \E k \in call[name].keys : seen[k] = 0
               THEN /\ failure' = [failure EXCEPT ![name] = "IndexError"]
                    /\ UNCHANGED <<msgs, queue, blockedPut, emitted, emittedFull, pushed>>
               ELSE LET ret == [k \in call[name].keys |-> Latest(SubSeq(msgs[k], 1, seen[k]))]
                    IN  /\ msgs' = [k \in DOMAIN msgs |-> Retained(msgs[k])]
                        /\ emitted' = Append(emitted, ret)
                        /\ UNCHANGED failure
                        /\ IF PutBlocks(queue)
                           THEN /\ blockedPut' = [blockedPut EXCEPT ![name] = ret]
                                /\ emittedFull' = emittedFull \cup {ret}
                                /\ UNCHANGED <<queue, pushed>>
                           ELSE /\ queue' = Append(queue, ret)
                                /\ pushed' = Append(pushed, ret)
                                /\ UNCHANGED <<blockedPut, emittedFull>>
  /\ lastOp' = "newMsg"
  /\ UNCHANGED <<streams, consumer, delivered, raised, budget, sent, other>>

ConcNext ==
  \/ \E name \in Names : ConcSlot(name)
  \/ \E name \in Names : ConcAppend(name)
  \/ \E name \in Names : ConcCountBegin(name)
  \/ \E name \in Names : ConcCountEnd(name)
  \/ \E name \in Names : ConcBuildBegin(name)
  \/ \E name \in Names : ConcBuildEnd(name)
  \/ \E name \in Names : PutResume(name)
  \/ \E block \in BOOLEAN : CheckQueue(block)
  \/ GetResume

\* The scenarios of the interleaved model: three producers that make
\* MaxConc calls each, two of them registered, and one producer that floods
\* the queue.
ConcScenarios ==
  { [streams |-> <<"color", "depth">>, budget |-> [n \in Names |-> MaxConc]],
    [streams |-> <<"color">>,
     budget |-> [n \in Names |-> IF n = "color" THEN MaxFlood ELSE 0]] }

ConcInit == \E sc \in ConcScenarios : Constructed(sc)

ConcSpec == ConcInit /\ [][ConcNext]_vars

\* What a sequence of newMsg calls made one after the other leaves behind:
\* the buffers and the bundles handed to the queue.
SerialStep(st, name) ==
  LET msg == [stream |-> name, seq |-> Len(Buf(st.m, name)) + 1]
      m1  == WithSlot(st.m, name)
      m2  == [m1 EXCEPT ![name] = Append(@, msg)]
  IN  IF Ready(streams, MsgsAvailableCnt(m2))
      THEN [m |-> [n \in DOMAIN m2 |-> Retained(m2[n])],
            e |-> Append(st.e, [n \in DOMAIN m2 |-> Latest(m2[n])])]
      ELSE [m |-> m2, e |-> st.e]

RECURSIVE SerialRun(_)
SerialRun(order) ==
  IF order = <<>> THEN [m |-> <<>>, e |-> <<>>]
  ELSE SerialStep(SerialRun(SubSeq(order, 1, Len(order) - 1)), order[Len(order)])

\* The orders in which c[n] calls of each producer n can be made one after
\* the other.
RECURSIVE Orders(_)
Orders(c) ==
  IF \A n \in Names : c[n] = 0 THEN {<<>>}
  ELSE UNION {{Append(o, n) : o \in Orders([c EXCEPT ![n] = @ - 1])} :
              n \in {x \in Names : c[x] > 0}}

----------------------------------------------------------------------------
\* Two NoSync instances.  `msgs: Dict[...] = dict()` on line 49 is a class
\* attribute and neither __init__ assigns self.msgs, so self.msgs is the same
\* dict in both instances: the second instance's newMsg works on msgs too.
\* Its queue, callback and streams are its own (set in __init__).

MsgsOf(inst) == msgs

OtherNewMsg(name) ==
  /\ other.budget[name] > 0
  /\ other.blockedPut[name] = None
  /\ LET msg == [stream |-> name, seq |-> other.sent[name] + 1, inst |-> "other"]
         m1  == WithSlot(MsgsOf("other"), name)
         m2  == [m1 EXCEPT ![name] = Append(@, msg)]
         msgsAvailableCnt == MsgsAvailableCnt(m2)
         o1  == [other EXCEPT !.budget[name] = @ - 1, !.sent[name] = @ + 1]
     IN  IF Ready(other.streams, msgsAvailableCnt)
         THEN LET ret == [n \in DOMAIN m2 |-> Latest(m2[n])]
              IN  /\ msgs' = [n \in DOMAIN m2 |-> Retained(m2[n])]
                  /\ other' = IF PutBlocks(other.queue)
                              THEN [o1 EXCEPT !.emitted = Append(@, ret),
                                              !.blockedPut[name] = ret]
                              ELSE [o1 EXCEPT !.emitted = Append(@, ret),
                                              !.queue = Append(@, ret)]
         ELSE /\ msgs' = m2
              /\ other' = o1
  /\ lastOp' = "other.newMsg"
  /\ UNCHANGED <<streams, queue, blockedPut, consumer, delivered, raised, budget,
                 sent, emitted, emittedFull, pushed, call, failure>>

OtherFrame == UNCHANGED <<streams, msgs, queue, blockedPut, consumer, delivered,
                          raised, budget, sent, emitted, emittedFull, pushed,
                          call, failure>>

OtherPutResume(name) ==
  /\ other.blockedPut[name] # None
  /\ ~PutBlocks(other.queue)
  /\ other' = [other EXCEPT !.queue = Append(@, other.blockedPut[name]),
                            !.blockedPut[name] = None]
  /\ lastOp' = "other.put"
  /\ OtherFrame

OtherCheckQueue(block) ==
  /\ other.consumer = "idle"
  /\ LET got == QueueGet(other.queue, block)
     IN  other' = CASE got.status = "item" ->
                         [other EXCEPT !.queue = got.rest,
                                       !.delivered = Callback(@, got.item)]
                    [] got.status = "wait" ->
                         [other EXCEPT !.consumer = "waiting"]
                    [] OTHER -> other
  /\ lastOp' = IF block THEN "other.checkQueueBlock" ELSE "other.checkQueue"
  /\ OtherFrame

OtherGetResume ==
  /\ other.consumer = "waiting"
  /\ other.queue # <<>>
  /\ LET got == QueueGet(other.queue, TRUE)
     IN  other' = [other EXCEPT !.queue = got.rest,
                                !.delivered = Callback(@, got.item),
                                !.consumer = "idle"]
  /\ lastOp' = "other.get"
  /\ OtherFrame

TwoNext ==
  \/ Next
  \/ \E name \in Names : OtherNewMsg(name)
  \/ \E name \in Names : OtherPutResume(name)
  \/ \E block \in BOOLEAN : OtherCheckQueue(block)
  \/ OtherGetResume

\* The scenarios with two instances: both listen to color and depth and get
\* MaxTwo calls for each; or one of them is flooded while the other is idle.
TwoBudget == [n \in Names |-> IF n = "nn" THEN 0 ELSE MaxTwo]

NoBudget == [n \in Names |-> 0]

OneFlood == [n \in Names |-> IF n = "color" THEN MaxFlood ELSE 0]

TwoScenarios ==
  { [streams |-> <<"color", "depth">>, budget |-> TwoBudget,
     streams2 |-> <<"color", "depth">>, budget2 |-> TwoBudget],
    [streams |-> <<"color">>, budget |-> OneFlood,
     streams2 |-> <<"color">>, budget2 |-> NoBudget],
    [streams |-> <<"color">>, budget |-> NoBudget,
     streams2 |-> <<"color">>, budget2 |-> OneFlood] }

TwoInit ==
  \E sc \in TwoScenarios :
    /\ streams = sc.streams
    /\ budget = sc.budget
    /\ other = Instance(sc.streams2, sc.budget2)
    /\ msgs = <<>>
    /\ queue = <<>>
    /\ blockedPut = [n \in Names |-> None]
    /\ consumer = "idle"
    /\ delivered = <<>>
    /\ raised = "none"
    /\ sent = [n \in Names |-> 0]
    /\ emitted = <<>>
    /\ emittedFull = {}
    /\ pushed = <<>>
    /\ lastOp = "init"
    /\ call = [n \in Names |-> Idle]
    /\ failure = [n \in Names |-> "none"]

TwoSpec == TwoInit /\ [][TwoNext]_vars

----------------------------------------------------------------------------
\* One instance whose list of streams names a stream more than once:
\* NoSync.__init__ stores the list as it is given.

DupScenarios ==
  { [streams |-> <<"color", "color">>, budget |-> SmallBudget],
    [streams |-> <<"color", "depth", "color">>, budget |-> SmallBudget],
    [streams |-> <<"color", "color">>, budget |-> FloodBudget] }

DupInit == \E sc \in DupScenarios : Constructed(sc)

DupSpec == DupInit /\ [][Next]_vars

----------------------------------------------------------------------------
\* Properties

LastBundle == emitted[Len(emitted)]

Emits == emitted' # emitted

NewBundle == emitted'[Len(emitted')]

\* C1: newMsg hands a bundle to the queue only when every registered stream
\* has at least one message in its buffer at that moment (counting the
\* message the call itself appended).
NoPartialBundle ==
  [][Emits => \A s \in Registered : Buf(msgs, s) # <<>> \/ sent'[s] > sent[s]]_vars

\* C2: every stream of an emitted bundle is mapped to the message most
\* recently passed to newMsg for that stream, up to and including the
\* emitting call.
LatestSelected ==
  [][Emits => \A s \in DOMAIN NewBundle :
                 NewBundle[s] = [stream |-> s, seq |-> sent'[s]]]_vars

\* C2 witness: a bundle was emitted that holds a stream's second or later
\* message, so an older message of that stream was passed over.
LatestSelectedWitness ==
  \E i \in 1..Len(emitted) : \E s \in DOMAIN emitted[i] : emitted[i][s].seq >= 2

\* C3: the key set of every emitted bundle is exactly the set of registered
\* stream names.
BundleKeysRegistered ==
  \A i \in 1..Len(emitted) : DOMAIN emitted[i] = Registered

\* C4: once every registered stream has received at least one newMsg call, a
\* bundle is eventually (in fact by then) pushed to the queue.
Covered == \A s \in Registered : sent[s] >= 1

EmissionLive == Covered ~> (pushed # <<>>)

\* C4 witness: every registered stream is covered, with different numbers of
\* messages, and a bundle has been pushed.
EmissionLiveWitness ==
  /\ Covered
  /\ pushed # <<>>
  /\ \E s, t \in Registered : sent[s] > sent[t]

\* C5: right after a newMsg call that emits a bundle, every buffer holds at
\* most one message.
PrunedOnEmission ==
  [][Emits => \A s \in DOMAIN msgs' : Len(msgs'[s]) <= 1]_vars

\* Stream s has had no newMsg call since the last bundle was emitted.
NoMsgSince(s) ==
  IF s \in DOMAIN LastBundle THEN LastBundle[s].seq = sent[s] ELSE sent[s] = 0

\* C6 (as stated): after an emission, a stream that has had no newMsg call
\* since then has an empty buffer.
EmptyUnlessNewer ==
  emitted # <<>> => \A s \in Names : NoMsgSince(s) => Buf(msgs, s) = <<>>

\* C6 (amended): after an emission, a stream of the bundle that has had no
\* newMsg call since then still has a non-empty buffer, whose last element
\* is the message selected into the bundle.
RetainedUnlessNewer ==
  emitted # <<>> =>
    \A s \in DOMAIN LastBundle :
      NoMsgSince(s) => /\ Buf(msgs, s) # <<>>
                       /\ Buf(msgs, s)[Len(Buf(msgs, s))] = LastBundle[s]

\* C6 witness: a bundle was emitted, then one stream received a message and
\* another did not.
RetainedUnlessNewerWitness ==
  /\ emitted # <<>>
  /\ \E s, t \in DOMAIN LastBundle : NoMsgSince(s) /\ ~NoMsgSince(t)

\* C7: no producer is ever blocked inside newMsg waiting for the consumer.
NeverBlocked == \A n \in Names : blockedPut[n] = None

\* C8: a bundle is passed to the callback at most once and only if newMsg
\* emitted it, and every emitted bundle is eventually passed to the callback
\* (the producers send finitely many messages, so this is: from some point
\* on, every bundle ever emitted has been passed to the callback once).
AllDelivered ==
  \A k \in 1..Len(emitted) : Count(emitted[k], delivered) = 1

NoLossNoDup ==
  /\ [](\A i \in 1..Len(delivered) :
          Count(delivered[i], delivered) = 1 /\ Count(delivered[i], emitted) = 1)
  /\ <>[]AllDelivered

\* C8 witness: a bundle emitted while the queue held 30 bundles has been
\* passed to the callback.
NoLossNoDupWitness ==
  \E b \in emittedFull : Count(b, delivered) = 1

\* C9: the callback receives the bundles in the order they entered the queue.
OrderPreserved == IsPrefix(delivered, pushed)

\* C9 witness: several bundles were delivered while others were still queued.
OrderPreservedWitness == Len(delivered) >= 2 /\ Len(queue) >= 2

\* C10: a checkQueue() call (block=False) on an empty queue does not block,
\* raises nothing, does not call the callback, and changes neither the queue
\* nor any buffer.
EmptyPollNoOp ==
  [][(queue = <<>> /\ consumer = "idle" /\ lastOp' = "checkQueue") =>
       /\ consumer' = "idle"
       /\ raised' = "none"
       /\ UNCHANGED <<streams, msgs, queue, blockedPut, delivered, budget, sent,
                      emitted, emittedFull, pushed>>]_vars

\* C10 witness: the consumer polled while nothing had ever been pushed and
\* the buffers held messages.
EmptyPollNoOpWitness ==
  /\ lastOp = "checkQueue"
  /\ pushed = <<>>
  /\ msgs # <<>>

\* C11: concurrent newMsg calls behave like calls made one after the other:
\* no call fails, and whenever no call is in progress the buffers and the
\* sequence of bundles handed to the queue are those of some serial order of
\* the calls made.
Quiescent == \A n \in Names : call[n].pc = "idle"

Serializable ==
  /\ \A n \in Names : failure[n] = "none"
  /\ Quiescent =>
       \E o \in Orders(sent) :
         SerialRun(o).m = msgs /\ SerialRun(o).e = emitted

\* C12: when only registered streams send, the call that gives the last
\* uncovered stream its first message pushes the first bundle, which holds
\* every stream's latest message; while it is the only bundle, the first
\* delivery passes exactly it to the callback and leaves the queue empty.
OnlyRegistered == \A n \in Names \ Registered : sent[n] = 0

FirstBundle ==
  /\ [][(OnlyRegistered' /\ ~Covered /\ Covered') =>
          /\ emitted = <<>>
          /\ emitted' = <<[s \in Registered |-> [stream |-> s, seq |-> sent'[s]]]>>
          /\ pushed' = emitted']_vars
  /\ []((OnlyRegistered /\ Len(emitted) = 1 /\ delivered # <<>>) =>
          (delivered = emitted /\ queue = <<>>))

\* C12 witness: color m1, color m2, depth d1 gave the one bundle
\* {color: m2, depth: d1}, which was delivered, and the queue is empty.
FirstBundleWitness ==
  /\ OnlyRegistered
  /\ emitted = <<[s \in {"color", "depth"} |->
                   [stream |-> s, seq |-> IF s = "color" THEN 2 ELSE 1]]>>
  /\ delivered = emitted
  /\ queue = <<>>

\* C13: the callback is called only by checkQueue (or by its waiting get
\* when it resumes), never by a newMsg call.
CallbackFromCheckQueue ==
  [][delivered' # delivered => lastOp' \in {"checkQueue", "checkQueueBlock", "get"}]_vars

\* C13 witness: a newMsg call emitted a bundle after the callback had been
\* called, and the callback was not called with it.
CallbackFromCheckQueueWitness ==
  /\ lastOp = "newMsg"
  /\ delivered # <<>>
  /\ Len(emitted) > Len(delivered)

\* C14: a newMsg call for an unregistered name fails with no error, leaves
\* a slot for the name with the message appended at its end, and changes no
\* other name's buffer.
UnregisteredAccepted ==
  [][\A n \in Names \ Registered :
       sent'[n] > sent[n] =>
         /\ failure'[n] = "none"
         /\ n \in DOMAIN msgs'
         /\ msgs'[n] = Append(Buf(msgs, n), [stream |-> n, seq |-> sent'[n]])
         /\ \A o \in Names \ {n} :
              /\ o \in DOMAIN msgs' <=> o \in DOMAIN msgs
              /\ Buf(msgs', o) = Buf(msgs, o)]_vars

\* C14 witness: an unregistered name has a message in its buffer next to a
\* registered stream's.
UnregisteredAcceptedWitness ==
  \E n \in Names \ Registered : \E s \in Registered :
    Buf(msgs, n) # <<>> /\ Buf(msgs, s) # <<>>

\* C15: the queue never holds more than 30 bundles.
QueueBounded == Len(queue) <= QueueMaxSize

\* C15 witness: the queue holds 30 bundles and a producer has one more.
QueueBoundedWitness ==
  /\ Len(queue) = QueueMaxSize
  /\ \E n \in Names : blockedPut[n] # None

\* C16: a newMsg(name, msg) call that emits no bundle appends msg to
\* buffer[name] and changes neither the queue nor any other buffer nor the
\* messages already in buffer[name].
NonEmittingFrame ==
  [][(sent' # sent /\ emitted' = emitted) =>
       \E n \in Names :
         /\ sent'[n] = sent[n] + 1
         /\ msgs'[n] = Append(Buf(msgs, n), [stream |-> n, seq |-> sent'[n]])
         /\ \A o \in Names \ {n} : Buf(msgs', o) = Buf(msgs, o)
         /\ queue' = queue
         /\ blockedPut' = blockedPut]_vars

\* C16 witness: a newMsg call that emitted nothing left two messages in a
\* buffer.
NonEmittingFrameWitness ==
  /\ lastOp = "newMsg"
  /\ emitted = <<>>
  /\ \E n \in Names : Len(Buf(msgs, n)) >= 2

\* C17: from the call that completes the coverage of the registered streams
\* on, every newMsg call for a registered stream emits one bundle.
EveryCallEmits ==
  [][(Covered' /\ \E s \in Registered : sent'[s] > sent[s]) =>
       Len(emitted') = Len(emitted) + 1]_vars

\* C18: a newMsg call on the second instance changes neither the first
\* instance's buffers nor the bundles the first instance emits, and every
\* bundle the first instance emits holds only messages passed to its own
\* newMsg.
OwnMessages(b) == \A n \in DOMAIN b : b[n] = [stream |-> n, seq |-> b[n].seq]

InstancesIsolated ==
  /\ [][other.sent' # other.sent =>
          MsgsOf("self")' = MsgsOf("self") /\ emitted' = emitted]_vars
  /\ [](\A i \in 1..Len(emitted) : OwnMessages(emitted[i]))

\* C19: duplicates in the list of streams are merged: when only registered
\* streams send, the call that gives the last uncovered distinct name its
\* first message emits a bundle.
DuplicatesMerged ==
  [][(OnlyRegistered' /\ ~Covered /\ Covered') =>
       Len(emitted') = Len(emitted) + 1]_vars

====
